---------------------------- MODULE Spec2Model ----------------------------
(***************************************************************************)
(* A model of the host_metrics source (src/sources/host_metrics.rs):       *)
(* the FilterList include/exclude engine, the category collectors, the     *)
(* capture orchestrator (capture_metrics) and the scheduler loop (run).    *)
(***************************************************************************)
EXTENDS Integers, Sequences, FiniteSets, TLC

VARIABLES
    filters,    \* the FilterList under evaluation
    value,      \* the candidate of the last contains_test call (an Option<&str>)
    result,     \* the outcome of the last contains_test call, None before the first
    cfg,        \* the HostMetricsConfig of the run (immutable after build)
    pc,         \* where run is: Idle, Waiting, Capturing, Sending, Stopped, Failed
    step,       \* in capture_metrics: the next collector call (index in CaptureSteps)
    hostname,   \* the result of get_hostname() of the cycle in progress
    metrics,    \* the metrics vector capture_metrics is filling
    batch,      \* the metrics handed to send_all in the current cycle
    sent,       \* how many events of batch the sink has accepted
    shutdown,   \* whether the ShutdownSignal has fired
    shutdownAt, \* where run was when the signal fired (pc "never" before)
    tickDue,    \* whether the interval has a tick ready
    sink,       \* the Pipeline: ready, blocked (no capacity) or closed
    faults,     \* provider faults of the cycle in progress
    queried     \* per collector call of the cycle: its provider result and output

filterVars == <<filters, value, result>>

runVars ==
    <<cfg, pc, step, hostname, metrics, batch, sent, shutdown, shutdownAt,
      tickDue, sink, faults, queried>>

vars == <<filterVars, runVars>>

----------------------------------------------------------------------------
(* Option<T> *)

None == [some |-> FALSE]

Some(x) == [some |-> TRUE, val |-> x]

----------------------------------------------------------------------------
(* Strings and paths.  A &str is a sequence of characters.  A Path is an   *)
(* OsStr: a sequence of units, each a character or a unit that is not      *)
(* valid UTF-8.                                                            *)

InvalidUnit == "\\xFF"

ReplacementChar == "U+FFFD"

IsUtf8(os) == \A i \in 1..Len(os) : os[i] # InvalidUnit

\* std::path::Path::new(&str): the same units, seen as a path.
PathNew(s) == [os |-> s]

\* Path::to_str: the string, when every unit is valid UTF-8.
to_str(p) == IF IsUtf8(p.os) THEN Some(p.os) ELSE None

\* Path::to_string_lossy: invalid units become U+FFFD.
to_string_lossy(p) ==
    [i \in 1..Len(p.os) |-> IF p.os[i] = InvalidUnit THEN ReplacementChar ELSE p.os[i]]

----------------------------------------------------------------------------
(* glob::Pattern: the compiled tokens of a glob expression.                *)

Char(c) == [t |-> "Char", c |-> c]

AnyChar == [t |-> "AnyChar"]

AnySequence == [t |-> "AnySequence"]

AnyWithin(cs) == [t |-> "AnyWithin", set |-> cs]

\* One token that is not `*` against one character (default MatchOptions).
TokenMatches(tok, c) ==
    CASE tok.t = "Char" -> c = tok.c
      [] tok.t = "AnyChar" -> TRUE
      [] tok.t = "AnyWithin" -> c \in tok.set
      [] OTHER -> FALSE

RECURSIVE glob_matches(_, _)
\* glob::Pattern::matches: the whole string must match the whole pattern.
glob_matches(tokens, s) ==
    IF tokens = <<>> THEN s = <<>>
    ELSE IF Head(tokens).t = "AnySequence"
         THEN \E k \in 0..Len(s) :
                 glob_matches(Tail(tokens), SubSeq(s, k + 1, Len(s)))
         ELSE /\ s # <<>>
              /\ TokenMatches(Head(tokens), Head(s))
              /\ glob_matches(Tail(tokens), Tail(s))

\* glob::Pattern::matches_path: a path that is not UTF-8 matches nothing.
glob_matches_path(tokens, p) ==
    LET s == to_str(p) IN s.some /\ glob_matches(tokens, s.val)

----------------------------------------------------------------------------
(* PatternWrapper *)

matches_str(pattern, s) == glob_matches(pattern, s)

\* A matcher that looks at the last path component only.
matches_path_file_name(pattern, p) ==
    LET seps == {i \in 1..Len(p.os) : p.os[i] = "/"}
        from == IF seps = {} THEN 1
                ELSE (CHOOSE i \in seps : \A j \in seps : j <= i) + 1
    IN  glob_matches_path(pattern, [os |-> SubSeq(p.os, from, Len(p.os))])

matches_path(pattern, p) == glob_matches_path(pattern, p)

----------------------------------------------------------------------------
(* FilterList *)

FilterList(inc, exc) == [includes |-> inc, excludes |-> exc]

\* The closure handed to contains: |pattern, s| pattern.matches_str(s) or
\* |pattern, path| pattern.matches_path(path).
Matches(kind, pattern, v) ==
    IF kind = "str" THEN matches_str(pattern, v) ELSE matches_path(pattern, v)

AnyPattern(kind, patterns, v) ==
    \E i \in 1..Len(patterns) : Matches(kind, patterns[i], v)

\* contains with `||` in place of `&&`.
contains_or(self, v, kind) ==
    \/ IF ~self.includes.some THEN TRUE
       ELSE IF ~v.some THEN FALSE
       ELSE AnyPattern(kind, self.includes.val, v.val)
    \/ IF ~self.excludes.some THEN TRUE
       ELSE IF ~v.some THEN TRUE
       ELSE ~AnyPattern(kind, self.excludes.val, v.val)

\* contains with the (Some(_), None) arm of the includes match returning true.
contains_none_included(self, v, kind) ==
    /\ IF ~self.includes.some THEN TRUE
       ELSE IF ~v.some THEN TRUE
       ELSE AnyPattern(kind, self.includes.val, v.val)
    /\ IF ~self.excludes.some THEN TRUE
       ELSE IF ~v.some THEN TRUE
       ELSE ~AnyPattern(kind, self.excludes.val, v.val)

\* contains with the (None, _) arm of the includes match returning false.
contains_no_default(self, v, kind) ==
    /\ IF ~self.includes.some THEN FALSE
       ELSE IF ~v.some THEN FALSE
       ELSE AnyPattern(kind, self.includes.val, v.val)
    /\ IF ~self.excludes.some THEN TRUE
       ELSE IF ~v.some THEN TRUE
       ELSE ~AnyPattern(kind, self.excludes.val, v.val)

\* contains that tries only the first pattern of each list.
contains_first_pattern(self, v, kind) ==
    /\ IF ~self.includes.some THEN TRUE
       ELSE IF ~v.some THEN FALSE
       ELSE self.includes.val # <<>> /\ Matches(kind, self.includes.val[1], v.val)
    /\ IF ~self.excludes.some THEN TRUE
       ELSE IF ~v.some THEN TRUE
       ELSE ~(self.excludes.val # <<>> /\ Matches(kind, self.excludes.val[1], v.val))

\* contains that takes an empty includes list for an absent one.
contains_empty_is_absent(self, v, kind) ==
    /\ IF ~self.includes.some \/ self.includes.val = <<>> THEN TRUE
       ELSE IF ~v.some THEN FALSE
       ELSE AnyPattern(kind, self.includes.val, v.val)
    /\ IF ~self.excludes.some THEN TRUE
       ELSE IF ~v.some THEN TRUE
       ELSE ~AnyPattern(kind, self.excludes.val, v.val)

\* contains whose excludes list excludes nothing.
contains_ignores_excludes(self, v, kind) ==
    IF ~self.includes.some THEN TRUE
    ELSE IF ~v.some THEN FALSE
    ELSE AnyPattern(kind, self.includes.val, v.val)

contains(self, v, kind) ==
    /\ IF ~self.includes.some THEN TRUE
       ELSE IF ~v.some THEN FALSE
       ELSE AnyPattern(kind, self.includes.val, v.val)
    /\ IF ~self.excludes.some THEN TRUE
       ELSE IF ~v.some THEN TRUE
       ELSE ~AnyPattern(kind, self.excludes.val, v.val)

contains_str(self, v) == contains(self, v, "str")

contains_path(self, v) == contains(self, v, "path")

\* value.map(|value| std::path::Path::new(value))
MapPathNew(v) == IF v.some THEN Some(PathNew(v.val)) ELSE None

\* tests::contains_test: both evaluations, which the test asserts equal.
contains_test(self, v) ==
    [str |-> contains_str(self, v), path |-> contains_path(self, MapPathNew(v))]

----------------------------------------------------------------------------
(* The inputs of the filter engine. *)

Str(s) == [i \in 1..Len(s) |-> Char(s[i])]

Pat_sda == Str(<<"s", "d", "a">>)

Pat_dm_star == Str(<<"d", "m", "-">>) \o <<AnySequence>>

Pat_dm_5 == Str(<<"d", "m", "-", "5">>)

Pat_q_da == <<AnyChar>> \o Str(<<"d", "a">>)

Pat_sd_class == Str(<<"s", "d">>) \o <<AnyWithin({"a", "b"})>>

Patterns == {Pat_sda, Pat_dm_star, Pat_dm_5, Pat_q_da, Pat_sd_class}

TestValues ==
    { <<"s", "d">>, <<"s", "d", "a">>, <<"s", "d", "a", "1">>, <<"d", "m", "-">>,
      <<"d", "m", "-", "5">>, <<"d", "m", "-", "1">>, <<"x", "d", "a">>,
      <<"/", "d", "a">> }

MaxListLen == 2

SeqsUpTo(S, n) == UNION {[1..k -> S] : k \in 0..n}

PatternLists == {None} \cup {Some(l) : l \in SeqsUpTo(Patterns, MaxListLen)}

FilterLists == {FilterList(i, e) : i \in PatternLists, e \in PatternLists}

Candidates == {None} \cup {Some(v) : v \in TestValues}

----------------------------------------------------------------------------
(* Metric.  A value is kept symbolic: the sample and the field it was read *)
(* from, or Zero for a literal 0.  A timestamp is                          *)
(* the Utc::now() call that produced it: the call-th call made by one      *)
(* invocation of fn.  Two metrics stamped by the same call carry the same  *)
(* instant; two calls may return different instants.                       *)

Now(fn, call) == [fn |-> fn, call |-> call]

Reading(sample, field) == [sample |-> sample, field |-> field]

Zero == [sample |-> "literal", field |-> "0"]

NoTags == [k \in {} |-> ""]

insert_tag(metric, key, val) ==
    [metric EXCEPT !.tags =
        [k \in (DOMAIN metric.tags) \cup {key} |->
            IF k = key THEN val ELSE metric.tags[k]]]

counter(self, name, timestamp, val, tags) ==
    [name |-> name, kind |-> "counter", value |-> val,
     namespace |-> self.namespace, tags |-> tags, timestamp |-> timestamp]

\* A gauge stamped with a clock reading of its own.
gauge_own_timestamp(self, name, timestamp, val, tags) ==
    [name |-> name, kind |-> "gauge", value |-> val,
     namespace |-> self.namespace, tags |-> tags, timestamp |-> Now(name, timestamp.call)]

gauge(self, name, timestamp, val, tags) ==
    [name |-> name, kind |-> "gauge", value |-> val,
     namespace |-> self.namespace, tags |-> tags, timestamp |-> timestamp]

RECURSIVE Flatten(_)
\* stream::iter(vec![..]) per entry, then .flatten().collect()
Flatten(seqs) ==
    IF seqs = <<>> THEN <<>> ELSE Head(seqs) \o Flatten(Tail(seqs))

----------------------------------------------------------------------------
(* Results of the stat provider (heim).  A query gives Err, or Ok with a   *)
(* value; a streamed value is a sequence of per-entry results.             *)

Err == [ok |-> FALSE]

Ok(v) == [ok |-> TRUE, val |-> v]

\* filter_result: Some(value) of an Ok entry, None (after logging) of an Err.
filter_result(r) == IF r.ok THEN Some(r.val) ELSE None

\* A stream cut at its first Err entry.
FilterMapResults_until_err(items) ==
    LET bad == {i \in 1..Len(items) : ~items[i].ok}
        n == IF bad = {} THEN Len(items)
             ELSE (CHOOSE i \in bad : \A j \in bad : i <= j) - 1
    IN  [i \in 1..n |-> items[i].val]

\* stream.filter_map(|result| filter_result(result, ..))
FilterMapResults(items) ==
    LET kept == SelectSeq(items, LAMBDA r : filter_result(r).some)
    IN  [i \in 1..Len(kept) |-> filter_result(kept[i]).val]

----------------------------------------------------------------------------
(* The category collectors, as built for target_os = "linux".              *)

\* usize::to_string: the decimal digits of n.
RECURSIVE to_string(_)
to_string(n) ==
    LET digit == <<"0", "1", "2", "3", "4", "5", "6", "7", "8", "9">>[(n % 10) + 1]
    IN  IF n < 10 THEN digit ELSE to_string(n \div 10) \o digit

\* The vec![..] of counters the map closure builds from one CpuTime.
CpuCounters(self, times, timestamp, index) ==
    LET name == "cpu_seconds_total"
    IN  << counter(self, name, timestamp, Reading(times.id, "idle"),
                   ("mode" :> "idle") @@ ("cpu" :> to_string(index))),
           counter(self, name, timestamp, Reading(times.id, "nice"),
                   ("mode" :> "nice") @@ ("cpu" :> to_string(index))),
           counter(self, name, timestamp, Reading(times.id, "system"),
                   ("mode" :> "system") @@ ("cpu" :> to_string(index))),
           counter(self, name, timestamp, Reading(times.id, "user"),
                   ("mode" :> "user") @@ ("cpu" :> to_string(index))) >>

\* A cpu collector that numbers the entries of the provider's stream before
\* it drops the failed ones.
cpu_metrics_stream_position(self, res) ==
    IF ~res.ok THEN <<>>
    ELSE LET items == res.val
             kept == SelectSeq([i \in 1..Len(items) |-> i], LAMBDA i : items[i].ok)
         IN  Flatten([n \in 1..Len(kept) |->
                 CpuCounters(self, items[kept[n]].val, Now("cpu_metrics", n), kept[n] - 1)])

cpu_metrics(self, res) ==
    IF ~res.ok THEN <<>>
    ELSE LET times == FilterMapResults(res.val)
         IN  Flatten([i \in 1..Len(times) |->
                 LET timestamp == Now("cpu_metrics", i)
                     index == i - 1
                 IN  CpuCounters(self, times[i], timestamp, index)])

memory_metrics(self, res) ==
    IF ~res.ok THEN <<>>
    ELSE LET timestamp == Now("memory_metrics", 1)
         IN  << gauge(self, "memory_total_bytes", timestamp, Reading("memory", "total"), NoTags),
                gauge(self, "memory_free_bytes", timestamp, Reading("memory", "free"), NoTags),
                gauge(self, "memory_available_bytes", timestamp, Reading("memory", "available"), NoTags),
                gauge(self, "memory_active_bytes", timestamp, Reading("memory", "active"), NoTags),
                gauge(self, "memory_buffers_bytes", timestamp, Reading("memory", "buffers"), NoTags),
                gauge(self, "memory_cached_bytes", timestamp, Reading("memory", "cached"), NoTags),
                gauge(self, "memory_shared_bytes", timestamp, Reading("memory", "shared"), NoTags),
                gauge(self, "memory_used_bytes", timestamp, Reading("memory", "used"), NoTags) >>

\* A field whose absence is reported as a reading.
UnwrapOr0_reading(field) == IF field.some THEN field.val ELSE Reading("swap", "absent")

\* swap.sin().map(|swap| swap.get::<byte>()).unwrap_or(0)
UnwrapOr0(field) == IF field.some THEN field.val ELSE Zero

swap_metrics(self, res) ==
    IF ~res.ok THEN <<>>
    ELSE LET timestamp == Now("swap_metrics", 1)
             swap == res.val
         IN  << gauge(self, "memory_swap_free_bytes", timestamp, Reading("swap", "free"), NoTags),
                gauge(self, "memory_swap_total_bytes", timestamp, Reading("swap", "total"), NoTags),
                gauge(self, "memory_swap_used_bytes", timestamp, Reading("swap", "used"), NoTags),
                counter(self, "memory_swapped_in_bytes_total", timestamp,
                        UnwrapOr0(swap.sin), NoTags),
                counter(self, "memory_swapped_out_bytes_total", timestamp,
                        UnwrapOr0(swap.sout), NoTags) >>

loadavg_metrics(self, res) ==
    IF ~res.ok THEN <<>>
    ELSE LET timestamp == Now("loadavg_metrics", 1)
         IN  << gauge(self, "load1", timestamp, Reading("loadavg", "0"), NoTags),
                gauge(self, "load5", timestamp, Reading("loadavg", "1"), NoTags),
                gauge(self, "load15", timestamp, Reading("loadavg", "2"), NoTags) >>

\* A host collector that gives nothing unless both of its queries answer.
host_metrics_both_or_none(self, res) ==
    IF res.uptime.ok /\ res.boot_time.ok
    THEN << gauge(self, "uptime", Now("host_metrics", 1),
                  Reading("uptime", "second"), NoTags),
            gauge(self, "boot_time", Now("host_metrics", 2),
                  Reading("boot_time", "second"), NoTags) >>
    ELSE <<>>

\* res.uptime and res.boot_time are the two queries' results.
host_metrics(self, res) ==
    LET up == IF res.uptime.ok
              THEN << gauge(self, "uptime", Now("host_metrics", 1),
                            Reading("uptime", "second"), NoTags) >>
              ELSE <<>>
        boot == IF res.boot_time.ok
                THEN << gauge(self, "boot_time", Now("host_metrics", Len(up) + 1),
                              Reading("boot_time", "second"), NoTags) >>
                ELSE <<>>
    IN  up \o boot

network_metrics(self, res) ==
    IF ~res.ok THEN <<>>
    ELSE LET counters == FilterMapResults(res.val)
             kept == SelectSeq(counters,
                         LAMBDA c : contains_str(self.network.devices, Some(c.interface)))
         IN  Flatten([i \in 1..Len(kept) |->
                 LET timestamp == Now("network_metrics", i)
                     tags == "device" :> kept[i].interface
                 IN  << counter(self, "network_receive_bytes_total", timestamp,
                                Reading(kept[i].id, "bytes_recv"), tags),
                        counter(self, "network_receive_errs_total", timestamp,
                                Reading(kept[i].id, "errors_recv"), tags),
                        counter(self, "network_receive_packets_total", timestamp,
                                Reading(kept[i].id, "packets_recv"), tags),
                        counter(self, "network_transmit_bytes_total", timestamp,
                                Reading(kept[i].id, "bytes_sent"), tags),
                        counter(self, "network_transmit_errs_total", timestamp,
                                Reading(kept[i].id, "errors_sent"), tags),
                        counter(self, "network_transmit_packets_drop_total", timestamp,
                                Reading(kept[i].id, "drop_sent"), tags),
                        counter(self, "network_transmit_packets_total", timestamp,
                                Reading(kept[i].id, "packets_sent"), tags) >>])

\* Partition filters that let through what passes any one of the three.
FilterPartitions_any(self, parts) ==
    SelectSeq(parts, LAMBDA e :
        \/ contains_path(self.filesystem.mountpoints, Some(e.partition.mount_point))
        \/ contains_path(self.filesystem.devices, e.partition.device)
        \/ contains_str(self.filesystem.filesystems, Some(e.partition.file_system)))

\* The three filter stages of filesystem_metrics: mountpoints, devices,
\* filesystems, each a map to Option followed by a filter_map.
FilterPartitions(self, parts) ==
    LET byMount == SelectSeq(parts, LAMBDA e :
            contains_path(self.filesystem.mountpoints, Some(e.partition.mount_point)))
        byDevice == SelectSeq(byMount, LAMBDA e :
            contains_path(self.filesystem.devices, e.partition.device))
    IN  SelectSeq(byDevice, LAMBDA e :
            contains_str(self.filesystem.filesystems, Some(e.partition.file_system)))

\* res.val.partitions is the partitions stream; res.val.usage[i] is the result
\* heim::disk::usage gives for the mount point of its i-th entry.
filesystem_metrics(self, res) ==
    IF ~res.ok THEN <<>>
    ELSE LET entries == res.val.partitions
             tagged == [i \in 1..Len(entries) |->
                          IF entries[i].ok
                          THEN Ok([partition |-> entries[i].val,
                                   usage |-> res.val.usage[i]])
                          ELSE Err]
             parts == FilterMapResults(tagged)
             byFs == FilterPartitions(self, parts)
             withUsage == SelectSeq(byFs, LAMBDA e : e.usage.ok)
         IN  Flatten([i \in 1..Len(withUsage) |->
                 LET partition == withUsage[i].partition
                     timestamp == Now("filesystem_metrics", i)
                     base == ("filesystem" :> partition.file_system)
                               @@ ("mountpoint" :> to_string_lossy(partition.mount_point))
                     tags == IF partition.device.some
                             THEN ("device" :> to_string_lossy(partition.device.val)) @@ base
                             ELSE base
                 IN  << gauge(self, "filesystem_free_bytes", timestamp, Reading(partition.id, "free"), tags),
                        gauge(self, "filesystem_total_bytes", timestamp, Reading(partition.id, "total"), tags),
                        gauge(self, "filesystem_used_bytes", timestamp, Reading(partition.id, "used"), tags),
                        gauge(self, "filesystem_used_ratio", timestamp, Reading(partition.id, "ratio"), tags) >>])

disk_metrics(self, res) ==
    IF ~res.ok THEN <<>>
    ELSE LET counters == FilterMapResults(res.val)
             kept == SelectSeq(counters,
                         LAMBDA c : contains_path(self.disk.devices, Some(c.device_name)))
         IN  Flatten([i \in 1..Len(kept) |->
                 LET timestamp == Now("disk_metrics", i)
                     tags == "device" :> to_string_lossy(kept[i].device_name)
                 IN  << counter(self, "disk_read_bytes_total", timestamp,
                                Reading(kept[i].id, "read_bytes"), tags),
                        counter(self, "disk_reads_completed_total", timestamp,
                                Reading(kept[i].id, "read_count"), tags),
                        counter(self, "disk_written_bytes_total", timestamp,
                                Reading(kept[i].id, "write_bytes"), tags),
                        counter(self, "disk_writes_completed_total", timestamp,
                                Reading(kept[i].id, "write_count"), tags) >>])

----------------------------------------------------------------------------
(* HostMetricsConfig.  scrape_interval_secs only sets the period of the    *)
(* interval, whose ticks are modelled by TimerFire.                        *)

DefaultFilter == FilterList(None, None)

AllCollectors == {"Cpu", "Disk", "Filesystem", "Load", "Host", "Memory", "Network"}

\* HostMetricsConfig::default()
DefaultConfig ==
    [collectors |-> None,
     namespace |-> Some("host"),
     disk |-> [devices |-> DefaultFilter],
     filesystem |-> [devices |-> DefaultFilter, filesystems |-> DefaultFilter,
                     mountpoints |-> DefaultFilter],
     network |-> [devices |-> DefaultFilter]]

\* build that hands the configured namespace on as it is.
build_keep_empty(config) == config

\* SourceConfig::build: an empty namespace becomes no namespace.
build(config) ==
    [config EXCEPT !.namespace =
        IF config.namespace.some /\ config.namespace.val # "" THEN config.namespace
        ELSE None]

\* has_collector that looks at the first listed collector only.
has_collector_first(self, collector) ==
    IF ~self.collectors.some THEN TRUE
    ELSE self.collectors.val # <<>> /\ self.collectors.val[1] = collector

\* has_collector that enables every collector whatever the list says.
has_collector_always(self, collector) == TRUE

has_collector(self, collector) ==
    IF ~self.collectors.some THEN TRUE
    ELSE \E i \in 1..Len(self.collectors.val) : self.collectors.val[i] = collector

\* add_collector that tags every metric with one fixed name.
add_collector_fixed(collector, ms) ==
    [i \in 1..Len(ms) |-> insert_tag(ms[i], "collector", "host")]

add_collector(collector, ms) ==
    [i \in 1..Len(ms) |-> insert_tag(ms[i], "collector", collector)]

\* The collector calls of capture_metrics, in order: the function awaited,
\* the Collector that enables it and the tag add_collector gives its metrics.
CaptureSteps ==
    << [fn |-> "cpu_metrics", category |-> "Cpu", collector |-> "cpu"],
       [fn |-> "disk_metrics", category |-> "Disk", collector |-> "disk"],
       [fn |-> "filesystem_metrics", category |-> "Filesystem", collector |-> "filesystem"],
       [fn |-> "loadavg_metrics", category |-> "Load", collector |-> "load"],
       [fn |-> "host_metrics", category |-> "Host", collector |-> "host"],
       [fn |-> "memory_metrics", category |-> "Memory", collector |-> "memory"],
       [fn |-> "swap_metrics", category |-> "Memory", collector |-> "memory"],
       [fn |-> "network_metrics", category |-> "Network", collector |-> "network"] >>

Fns == {CaptureSteps[i].fn : i \in 1..Len(CaptureSteps)}

\* self.<fn>().await
Collect(fn, self, res) ==
    CASE fn = "cpu_metrics" -> cpu_metrics(self, res)
      [] fn = "disk_metrics" -> disk_metrics(self, res)
      [] fn = "filesystem_metrics" -> filesystem_metrics(self, res)
      [] fn = "loadavg_metrics" -> loadavg_metrics(self, res)
      [] fn = "host_metrics" -> host_metrics(self, res)
      [] fn = "memory_metrics" -> memory_metrics(self, res)
      [] fn = "swap_metrics" -> swap_metrics(self, res)
      [] fn = "network_metrics" -> network_metrics(self, res)

\* Event::from(metric)
into_event(metric) == [event |-> "Metric", metric |-> metric]

----------------------------------------------------------------------------
(* The host the source runs on: what the stat providers have to report.    *)

CpuTimes == << [id |-> "cpu0"], [id |-> "cpu1"] >>

DiskCounters ==
    << [id |-> "sda", device_name |-> PathNew(<<"s", "d", "a">>)],
       [id |-> "dm-1", device_name |-> PathNew(<<"d", "m", "-", "1">>)] >>

Partitions ==
    << [id |-> "root", device |-> Some(PathNew(<<"s", "d", "a">>)),
        file_system |-> <<"e", "x", "t">>, mount_point |-> PathNew(<<"/">>)],
       [id |-> "tmp", device |-> None,
        file_system |-> <<"t", "m", "p">>, mount_point |-> PathNew(<<"/", "t">>)] >>

NetCounters ==
    << [id |-> "lo", interface |-> <<"l", "o">>],
       [id |-> "e0", interface |-> <<"e", "0">>] >>

\* The streams a provider can give for its samples: each entry Ok or Err.
StreamItems(samples) ==
    { [i \in 1..Len(samples) |-> IF oks[i] THEN Ok(samples[i]) ELSE Err] :
        oks \in [1..Len(samples) -> BOOLEAN] }

StreamResults(samples) == {Err} \cup {Ok(items) : items \in StreamItems(samples)}

SwapSamples ==
    { [sin |-> i, sout |-> o] :
        i \in {None, Some(Reading("swap", "sin"))},
        o \in {None, Some(Reading("swap", "sout"))} }

ProviderResults(fn) ==
    CASE fn = "cpu_metrics" -> StreamResults(CpuTimes)
      [] fn = "disk_metrics" -> StreamResults(DiskCounters)
      [] fn = "filesystem_metrics" ->
            {Err} \cup
            { Ok([partitions |-> items, usage |-> u]) :
                items \in StreamItems(Partitions),
                u \in [1..Len(Partitions) -> {Err, Ok("usage")}] }
      [] fn = "loadavg_metrics" -> {Err, Ok("loadavg")}
      [] fn = "host_metrics" ->
            { [uptime |-> u, boot_time |-> b] :
                u \in {Err, Ok("uptime")}, b \in {Err, Ok("boot_time")} }
      [] fn = "memory_metrics" -> {Err, Ok("memory")}
      [] fn = "swap_metrics" -> {Err} \cup {Ok(s) : s \in SwapSamples}
      [] fn = "network_metrics" -> StreamResults(NetCounters)

\* What a provider query returns when it works for every entry.
Healthy(fn) ==
    CASE fn = "cpu_metrics" -> Ok([i \in 1..Len(CpuTimes) |-> Ok(CpuTimes[i])])
      [] fn = "disk_metrics" -> Ok([i \in 1..Len(DiskCounters) |-> Ok(DiskCounters[i])])
      [] fn = "filesystem_metrics" ->
            Ok([partitions |-> [i \in 1..Len(Partitions) |-> Ok(Partitions[i])],
                usage |-> [i \in 1..Len(Partitions) |-> Ok("usage")]])
      [] fn = "loadavg_metrics" -> Ok("loadavg")
      [] fn = "host_metrics" -> [uptime |-> Ok("uptime"), boot_time |-> Ok("boot_time")]
      [] fn = "memory_metrics" -> Ok("memory")
      [] fn = "swap_metrics" ->
            Ok([sin |-> Some(Reading("swap", "sin")), sout |-> Some(Reading("swap", "sout"))])
      [] fn = "network_metrics" -> Ok([i \in 1..Len(NetCounters) |-> Ok(NetCounters[i])])

\* What a provider query returns when it fails as a whole.
Down(fn) ==
    IF fn = "host_metrics" THEN [uptime |-> Err, boot_time |-> Err] ELSE Err

BadEntries(items) == Cardinality({i \in 1..Len(items) : ~items[i].ok})

\* How many things went wrong in one provider result: failed queries, Err
\* entries, fields the provider does not expose.
Faults(fn, res) ==
    CASE fn = "host_metrics" ->
            (IF res.uptime.ok THEN 0 ELSE 1) + (IF res.boot_time.ok THEN 0 ELSE 1)
      [] ~res.ok -> 1
      [] fn \in {"cpu_metrics", "disk_metrics", "network_metrics"} -> BadEntries(res.val)
      [] fn = "filesystem_metrics" ->
            BadEntries(res.val.partitions) + BadEntries(res.val.usage)
      [] fn = "swap_metrics" ->
            (IF res.val.sin.some THEN 0 ELSE 1) + (IF res.val.sout.some THEN 0 ELSE 1)
      [] OTHER -> 0

\* Faults per capture cycle of a configuration that lists its collectors.
MaxFaults == 2

\* Faults per capture cycle when the allow-list is absent and all eight
\* collector calls are made.
MaxFaultsAll == 1

FaultBudget(self) == IF self.collectors.some THEN MaxFaults ELSE MaxFaultsAll

\* crate::get_hostname()
HostnameResults == {Err, Ok("h")}

CollectorLists ==
    {None, Some(<<>>), Some(<<"Load", "Host">>), Some(<<"Cpu", "Cpu">>)}
        \cup {Some(<<c>>) : c \in AllCollectors}

Pat_lo == Str(<<"l", "o">>)

Pat_t_star == Str(<<"t">>) \o <<AnySequence>>

Pat_slash_star == Str(<<"/">>) \o <<AnySequence>>

RawConfigs ==
    {[DefaultConfig EXCEPT !.collectors = l] : l \in CollectorLists}
    \cup {[DefaultConfig EXCEPT !.collectors = Some(<<"Load">>), !.namespace = n] :
            n \in {Some("other"), Some(""), None}}
    \cup {[DefaultConfig EXCEPT !.collectors = Some(<<"Disk">>), !.disk.devices = f] :
            f \in {FilterList(Some(<<Pat_sda>>), None), FilterList(None, Some(<<Pat_sda>>)),
                   FilterList(Some(<<Pat_q_da, Pat_dm_star>>), Some(<<Pat_dm_5>>))}}
    \cup {[DefaultConfig EXCEPT !.collectors = Some(<<"Network">>), !.network.devices = f] :
            f \in {FilterList(Some(<<Pat_lo>>), None), FilterList(None, Some(<<Pat_lo>>))}}
    \cup {[DefaultConfig EXCEPT !.collectors = Some(<<"Filesystem">>),
                                !.filesystem.devices = f] :
            f \in {FilterList(Some(<<Pat_sda>>), None), FilterList(None, Some(<<Pat_sda>>))}}
    \cup {[DefaultConfig EXCEPT !.collectors = Some(<<"Filesystem">>),
                                !.filesystem.filesystems = f] :
            f \in {FilterList(Some(<<Pat_t_star>>), None), FilterList(None, Some(<<Pat_t_star>>))}}
    \cup {[DefaultConfig EXCEPT !.collectors = Some(<<"Filesystem">>),
                                !.filesystem.mountpoints = f] :
            f \in {FilterList(Some(<<Pat_slash_star>>), Some(<<Pat_slash_star, Pat_sda>>)),
                   FilterList(None, Some(<<Str(<<"/">>)>>))}}

Configs == {build(c) : c \in RawConfigs}

----------------------------------------------------------------------------
(* run: the scheduler loop, capture_metrics step by step, and send_all.    *)

NotQueried == [fn \in Fns |-> None]

Terminal == {"Stopped", "Failed"}

captureVars == <<step, hostname, metrics, faults, queried>>

envVars == <<shutdown, shutdownAt, tickDue, sink>>

\* run is polled for the first time: the interval is built, and its first
\* tick completes immediately.
RunStart ==
    /\ pc = "Idle"
    /\ pc' = "Waiting"
    /\ tickDue' = TRUE
    /\ UNCHANGED <<filterVars, cfg, captureVars, batch, sent, shutdown, shutdownAt, sink>>

\* interval.next() gives None: take_until polls the shutdown signal first.
WaitShutdown ==
    /\ pc = "Waiting"
    /\ shutdown
    /\ pc' = "Stopped"
    /\ UNCHANGED <<filterVars, cfg, captureVars, batch, sent, envVars>>

\* A loop that polls the interval while send_all is still pending.
WaitTick_while_sending ==
    /\ pc \in {"Waiting", "Sending"}
    /\ ~shutdown
    /\ tickDue
    /\ \E h \in HostnameResults :
          /\ Faults("get_hostname", h) <= FaultBudget(cfg)
          /\ hostname' = h
          /\ faults' = Faults("get_hostname", h)
    /\ pc' = "Capturing"
    /\ tickDue' = FALSE
    /\ step' = 1
    /\ metrics' = <<>>
    /\ queried' = NotQueried
    /\ batch' = <<>>
    /\ sent' = 0
    /\ UNCHANGED <<filterVars, cfg, shutdown, shutdownAt, sink>>

\* A loop whose interval is polled before the shutdown signal.
WaitTick_before_shutdown ==
    /\ pc = "Waiting"
    /\ tickDue
    /\ \E h \in HostnameResults :
          /\ Faults("get_hostname", h) <= FaultBudget(cfg)
          /\ hostname' = h
          /\ faults' = Faults("get_hostname", h)
    /\ pc' = "Capturing"
    /\ tickDue' = FALSE
    /\ step' = 1
    /\ metrics' = <<>>
    /\ queried' = NotQueried
    /\ batch' = <<>>
    /\ sent' = 0
    /\ UNCHANGED <<filterVars, cfg, shutdown, shutdownAt, sink>>

\* interval.next() gives a tick; capture_metrics starts with get_hostname().
WaitTick ==
    /\ pc = "Waiting"
    /\ ~shutdown
    /\ tickDue
    /\ \E h \in HostnameResults :
          /\ Faults("get_hostname", h) <= FaultBudget(cfg)
          /\ hostname' = h
          /\ faults' = Faults("get_hostname", h)
    /\ pc' = "Capturing"
    /\ tickDue' = FALSE
    /\ step' = 1
    /\ metrics' = <<>>
    /\ queried' = NotQueried
    /\ batch' = <<>>
    /\ sent' = 0
    /\ UNCHANGED <<filterVars, cfg, shutdown, shutdownAt, sink>>

\* A capture that gives up between two collectors once shutdown has fired.
CollectStep_abort_on_shutdown ==
    /\ pc = "Capturing"
    /\ step \in 1..Len(CaptureSteps)
    /\ IF shutdown
       THEN /\ pc' = "Stopped"
            /\ UNCHANGED <<metrics, queried, faults, step>>
       ELSE /\ LET s == CaptureSteps[step] IN
                  IF has_collector(cfg, s.category)
                  THEN \E res \in ProviderResults(s.fn) :
                          /\ faults + Faults(s.fn, res) <= FaultBudget(cfg)
                          /\ LET out == Collect(s.fn, cfg, res) IN
                                /\ metrics' = metrics \o add_collector(s.collector, out)
                                /\ queried' = [queried EXCEPT
                                                 ![s.fn] = Some([res |-> res, out |-> out])]
                          /\ faults' = faults + Faults(s.fn, res)
                  ELSE UNCHANGED <<metrics, queried, faults>>
            /\ step' = step + 1
            /\ pc' = pc
    /\ UNCHANGED <<filterVars, cfg, hostname, batch, sent, envVars>>

\* A capture in which a failed provider query throws away what the earlier
\* collectors gave.
CollectStep_failure_clears ==
    /\ pc = "Capturing"
    /\ step \in 1..Len(CaptureSteps)
    /\ LET s == CaptureSteps[step] IN
          IF has_collector(cfg, s.category)
          THEN \E res \in ProviderResults(s.fn) :
                  /\ faults + Faults(s.fn, res) <= FaultBudget(cfg)
                  /\ LET out == Collect(s.fn, cfg, res) IN
                        /\ metrics' = IF s.fn # "host_metrics" /\ ~res.ok THEN <<>>
                                       ELSE metrics \o add_collector(s.collector, out)
                        /\ queried' = [queried EXCEPT
                                         ![s.fn] = Some([res |-> res, out |-> out])]
                  /\ faults' = faults + Faults(s.fn, res)
          ELSE UNCHANGED <<metrics, queried, faults>>
    /\ step' = step + 1
    /\ UNCHANGED <<filterVars, cfg, pc, hostname, batch, sent, envVars>>

\* A capture that queries a provider again when its query failed.
CollectStep_retry_failed ==
    /\ pc = "Capturing"
    /\ step \in 1..Len(CaptureSteps)
    /\ LET s == CaptureSteps[step] IN
          IF has_collector(cfg, s.category)
          THEN \E res \in ProviderResults(s.fn) :
                  /\ faults + Faults(s.fn, res) <= FaultBudget(cfg)
                  /\ LET out == Collect(s.fn, cfg, res) IN
                        /\ metrics' = metrics \o add_collector(s.collector, out)
                        /\ queried' = [queried EXCEPT ![s.fn] = Some([res |-> res, out |-> out])]
                  /\ faults' = faults + Faults(s.fn, res)
                  /\ step' = IF res = Down(s.fn) THEN step ELSE step + 1
          ELSE UNCHANGED <<metrics, queried, faults>> /\ step' = step + 1
    /\ UNCHANGED <<filterVars, cfg, pc, hostname, batch, sent, envVars>>

\* One `if self.has_collector(..) { metrics.extend(add_collector(..)) }`.
CollectStep ==
    /\ pc = "Capturing"
    /\ step \in 1..Len(CaptureSteps)
    /\ LET s == CaptureSteps[step] IN
          IF has_collector(cfg, s.category)
          THEN \E res \in ProviderResults(s.fn) :
                  /\ faults + Faults(s.fn, res) <= FaultBudget(cfg)
                  /\ LET out == Collect(s.fn, cfg, res) IN
                        /\ metrics' = metrics \o add_collector(s.collector, out)
                        /\ queried' = [queried EXCEPT ![s.fn] = Some([res |-> res, out |-> out])]
                  /\ faults' = faults + Faults(s.fn, res)
          ELSE UNCHANGED <<metrics, queried, faults>>
    /\ step' = step + 1
    /\ UNCHANGED <<filterVars, cfg, pc, hostname, batch, sent, envVars>>

\* A capture that puts the host tag on its first metric only.
CaptureFinish_tag_first ==
    /\ pc = "Capturing"
    /\ step = Len(CaptureSteps) + 1
    /\ LET tagged == IF hostname.ok
                     THEN [i \in 1..Len(metrics) |->
                              IF i = 1 THEN insert_tag(metrics[i], "host", hostname.val)
                              ELSE metrics[i]]
                     ELSE metrics
       IN  batch' = [i \in 1..Len(tagged) |-> into_event(tagged[i])]
    /\ sent' = 0
    /\ pc' = "Sending"
    /\ step' = 0
    /\ UNCHANGED <<filterVars, cfg, hostname, metrics, faults, queried, envVars>>

\* The end of capture_metrics (the host tag) and the start of send_all.
CaptureFinish ==
    /\ pc = "Capturing"
    /\ step = Len(CaptureSteps) + 1
    /\ LET tagged == IF hostname.ok
                     THEN [i \in 1..Len(metrics) |->
                              insert_tag(metrics[i], "host", hostname.val)]
                     ELSE metrics
       IN  batch' = [i \in 1..Len(tagged) |-> into_event(tagged[i])]
    /\ sent' = 0
    /\ pc' = "Sending"
    /\ step' = 0
    /\ UNCHANGED <<filterVars, cfg, hostname, metrics, faults, queried, envVars>>

\* send_all hands the next event to the sink, which has room for it.
SendItem ==
    /\ pc = "Sending"
    /\ sent < Len(batch)
    /\ sink = "ready"
    /\ sent' = sent + 1
    /\ UNCHANGED <<filterVars, cfg, pc, captureVars, batch, envVars>>

\* send_all returns Ok: every event was accepted; the loop awaits the next tick.
SendDone ==
    /\ pc = "Sending"
    /\ sent = Len(batch)
    /\ pc' = "Waiting"
    /\ UNCHANGED <<filterVars, cfg, captureVars, batch, sent, envVars>>

\* A loop that logs the send error and goes on to the next tick.
SendFail_continues ==
    /\ pc = "Sending"
    /\ sink = "closed"
    /\ pc' = "Waiting"
    /\ UNCHANGED <<filterVars, cfg, captureVars, batch, sent, envVars>>

\* send_all returns Err (the sink is closed): `?` ends run with Err(()).
SendFail ==
    /\ pc = "Sending"
    /\ sink = "closed"
    /\ pc' = "Failed"
    /\ UNCHANGED <<filterVars, cfg, captureVars, batch, sent, envVars>>

(* The environment: the shutdown signal, the timer, the sink. *)

Shutdown ==
    /\ ~shutdown
    /\ pc \notin Terminal
    /\ shutdown' = TRUE
    /\ shutdownAt' = [pc |-> pc,
                       partial |-> pc = "Capturing" /\ step \in 2..Len(CaptureSteps)]
    /\ UNCHANGED <<filterVars, cfg, pc, captureVars, batch, sent, tickDue, sink>>

TimerFire ==
    /\ pc \notin Terminal \cup {"Idle"}
    /\ ~tickDue
    /\ tickDue' = TRUE
    /\ UNCHANGED <<filterVars, cfg, pc, captureVars, batch, sent, shutdown, shutdownAt, sink>>

SinkBlock ==
    /\ pc \notin Terminal
    /\ sink = "ready"
    /\ sink' = "blocked"
    /\ UNCHANGED <<filterVars, cfg, pc, captureVars, batch, sent, shutdown, shutdownAt, tickDue>>

SinkUnblock ==
    /\ pc \notin Terminal
    /\ sink = "blocked"
    /\ sink' = "ready"
    /\ UNCHANGED <<filterVars, cfg, pc, captureVars, batch, sent, shutdown, shutdownAt, tickDue>>

SinkClose ==
    /\ pc \notin Terminal
    /\ sink # "closed"
    /\ sink' = "closed"
    /\ UNCHANGED <<filterVars, cfg, pc, captureVars, batch, sent, shutdown, shutdownAt, tickDue>>

RunStep ==
    \/ RunStart
    \/ WaitShutdown
    \/ WaitTick
    \/ CollectStep
    \/ CaptureFinish
    \/ SendItem
    \/ SendDone
    \/ SendFail

EnvStep ==
    \/ Shutdown
    \/ TimerFire
    \/ SinkBlock
    \/ SinkUnblock
    \/ SinkClose

RunIdle ==
    /\ pc = "Idle"
    /\ step = 0
    /\ hostname = Err
    /\ metrics = <<>>
    /\ batch = <<>>
    /\ sent = 0
    /\ shutdown = FALSE
    /\ shutdownAt = [pc |-> "never", partial |-> FALSE]
    /\ tickDue = FALSE
    /\ sink = "ready"
    /\ faults = 0
    /\ queried = NotQueried

Init ==
    /\ cfg \in Configs
    /\ RunIdle
    /\ filters = DefaultFilter
    /\ value = None
    /\ result = None

Next == RunStep \/ EnvStep

Spec == Init /\ [][Next]_vars

----------------------------------------------------------------------------
(* The filter engine on its own: a FilterList of the configuration, and    *)
(* contains_test applied to candidates.                                    *)

InitFilter ==
    /\ filters \in FilterLists
    /\ value = None
    /\ result = None
    /\ cfg = build(DefaultConfig)
    /\ RunIdle

ContainsTest(v) ==
    /\ value' = v
    /\ result' = Some(contains_test(filters, v))
    /\ UNCHANGED <<filters, runVars>>

NextFilter == \E v \in Candidates : ContainsTest(v)

SpecFilter == InitFilter /\ [][NextFilter]_vars

----------------------------------------------------------------------------
(* Properties of the filter engine (under SpecFilter). *)

Evaluated == result.some

\* tests::filterlist_includes_and_excludes_works
TestFilter == FilterList(Some(<<Pat_sda, Pat_dm_star>>), Some(<<Pat_dm_5>>))

IncludeMatches(v) ==
    \E i \in 1..Len(filters.includes.val) : matches_str(filters.includes.val[i], v)

ExcludeMatches(v) ==
    \E i \in 1..Len(filters.excludes.val) : matches_str(filters.excludes.val[i], v)

\* C1: for a present candidate v, contains is true iff (includes is absent or
\* some include pattern matches v) and (excludes is absent or no exclude
\* pattern matches v); a value matched by an include and by an exclude
\* pattern is rejected; with includes [sda, dm-*] and excludes [dm-5],
\* dm-1 and sda are contained and dm-5 is not.
C1_ContainsIsIncludeAndNotExclude ==
    (Evaluated /\ value.some) =>
        LET v == value.val
            incOk == ~filters.includes.some \/ IncludeMatches(v)
            excOk == ~filters.excludes.some \/ ~ExcludeMatches(v)
        IN  /\ result.val.str = (incOk /\ excOk)
            /\ (filters.includes.some /\ filters.excludes.some
                    /\ IncludeMatches(v) /\ ExcludeMatches(v)) => ~result.val.str
            /\ filters = TestFilter =>
                  /\ v = <<"d", "m", "-", "1">> => result.val.str
                  /\ v = <<"d", "m", "-", "5">> => ~result.val.str
                  /\ v = <<"s", "d", "a">> => result.val.str

C1_Witness ==
    /\ Evaluated /\ value = Some(<<"d", "m", "-", "5">>)
    /\ filters = TestFilter
    /\ IncludeMatches(value.val) /\ ExcludeMatches(value.val)
    /\ ~result.val.str

\* C2: for an absent candidate, contains is true iff the includes list is
\* absent, whatever the excludes list is (absent, empty or non-empty).
C2_AbsentValueAsymmetry ==
    (Evaluated /\ ~value.some) =>
        /\ result.val.str = ~filters.includes.some
        /\ result.val.path = ~filters.includes.some

C2_Witness ==
    /\ Evaluated /\ ~value.some
    /\ ~filters.includes.some
    /\ filters.excludes.some /\ filters.excludes.val # <<>>
    /\ result.val.str

\* C3: the default FilterList (no includes list, no excludes list) contains
\* every candidate, the absent one included.
C3_DefaultContainsEverything ==
    (Evaluated /\ filters = FilterList(None, None)) =>
        result.val.str /\ result.val.path

C3_Witness ==
    /\ Evaluated /\ filters = FilterList(None, None)
    /\ ~value.some
    /\ result.val.str

\* C4: for every FilterList and every candidate, present or absent,
\* contains_str on the string and contains_path on the path made of that
\* string give the same result.
C4_StrAndPathAgree ==
    Evaluated => result.val.str = result.val.path

C4_Witness ==
    /\ Evaluated /\ value = Some(<<"/", "d", "a">>)
    /\ filters.includes = Some(<<Pat_q_da>>)
    /\ result.val.str /\ result.val.path

----------------------------------------------------------------------------
(* run under the scheduling of the async runtime: a task whose await is    *)
(* ready is polled again, so a step of run that stays enabled is taken.    *)

SpecLive == Spec /\ WF_vars(RunStep)

----------------------------------------------------------------------------
(* Properties of the scheduler and of the capture orchestrator.            *)

\* The categories the configuration enables, read off the allow-list.
EnabledCategories ==
    IF cfg.collectors.some
    THEN {cfg.collectors.val[i] : i \in 1..Len(cfg.collectors.val)}
    ELSE AllCollectors

StepsOf(category) == {i \in 1..Len(CaptureSteps) : CaptureSteps[i].category = category}

TagOf(category) == CaptureSteps[CHOOSE i \in StepsOf(category) : TRUE].collector

\* The categories whose collectors were called in the cycle.
RanCategories ==
    {CaptureSteps[i].category : i \in {j \in 1..Len(CaptureSteps) : queried[CaptureSteps[j].fn].some}}

\* The events of the batch that carry collector = tag.
EventsOf(tag) ==
    SelectSeq(batch, LAMBDA e : e.metric.tags["collector"] = tag)

\* C5: capture cycles never overlap and the sink back-pressures them: a
\* capture begins only from the wait for a tick, with every event of the
\* previous batch accepted; the tick is awaited only once send_all has handed
\* over the whole batch; while the sink is blocked on a pending event of the
\* batch nothing moves, and while events of a batch are still pending no
\* capture starts and no other batch is formed.
C5_NoOverlapBackpressure ==
    [][ /\ (pc # "Capturing" /\ pc' = "Capturing") =>
              (pc = "Waiting" /\ sent = Len(batch))
        /\ (pc = "Sending" /\ pc' = "Waiting") => sent = Len(batch)
        /\ (pc = "Sending" /\ sink = "blocked" /\ sent < Len(batch)) =>
              (pc' = "Sending" /\ sent' = sent /\ batch' = batch)
        /\ (pc = "Sending" /\ sent < Len(batch)) =>
              (pc' \in {"Sending", "Failed"} /\ batch' = batch /\ metrics' = metrics)
      ]_vars

C5_Witness ==
    /\ pc = "Sending" /\ sink = "blocked" /\ tickDue
    /\ 0 < sent /\ sent < Len(batch)

\* C6: when the shutdown signal fires while a capture cycle is in progress,
\* the cycle is not aborted: by the time run is Stopped every enabled
\* collector of that cycle has been called, the batch holds all they gave and
\* the sink has accepted every event of it.
C6_CancelledCycleCompletes ==
    (pc = "Stopped" /\ shutdownAt.pc \in {"Capturing", "Sending"}) =>
        /\ RanCategories = EnabledCategories
        /\ \A i \in 1..Len(CaptureSteps) :
              CaptureSteps[i].category \in EnabledCategories =>
                  queried[CaptureSteps[i].fn].some
        /\ Len(batch) = Len(metrics)
        /\ \A i \in 1..Len(batch) : batch[i].metric.name = metrics[i].name
        /\ sent = Len(batch)

C6_Witness ==
    /\ pc = "Stopped"
    /\ shutdownAt.pc = "Capturing" /\ shutdownAt.partial
    /\ ~cfg.collectors.some
    /\ faults = 0
    /\ Len(batch) > 0 /\ sent = Len(batch)

\* C7: once the shutdown signal has fired, and provided the sink ends up
\* accepting, run reaches Stopped (it returns Ok); at a wait point where the
\* signal has fired no capture starts, tick due or not; Stopped is final.
C7_StopsAfterCancel ==
    /\ [][(pc = "Waiting" /\ shutdown) => pc' \in {"Waiting", "Stopped"}]_vars
    /\ [][pc = "Stopped" => pc' = "Stopped"]_vars
    /\ (<>[](sink = "ready")) => (shutdown ~> (pc = "Stopped"))

C7_Witness ==
    /\ pc = "Stopped" /\ shutdown /\ tickDue
    /\ shutdownAt.pc = "Waiting"

\* C8: the collectors that run in a cycle are those of all seven categories
\* when the allow-list is absent, else exactly those of the listed categories
\* (none for an empty list); no metric of the batch comes from a category
\* that is not enabled.
C8_EnabledCategoriesRun ==
    /\ \A fn \in Fns : queried[fn].some =>
          \E i \in 1..Len(CaptureSteps) :
              CaptureSteps[i].fn = fn /\ CaptureSteps[i].category \in EnabledCategories
    /\ pc = "Sending" =>
          /\ RanCategories = EnabledCategories
          /\ ~cfg.collectors.some => RanCategories = AllCollectors
          /\ cfg.collectors = Some(<<>>) => (RanCategories = {} /\ batch = <<>>)
          /\ {batch[i].metric.tags["collector"] : i \in 1..Len(batch)}
                \subseteq {TagOf(c) : c \in EnabledCategories}

C8_Witness ==
    /\ pc = "Sending"
    /\ cfg.collectors = Some(<<"Load", "Host">>)
    /\ RanCategories = {"Load", "Host"}
    /\ Len(batch) = 5

\* Whether a collector call got nothing at all from its provider.
QueryFailed(fn) ==
    LET res == queried[fn].val.res IN
    IF fn = "host_metrics" THEN ~res.uptime.ok /\ ~res.boot_time.ok ELSE ~res.ok

\* The batch a cycle must hand over: what each enabled collector call gave, in
\* call order, tagged with its collector and with the host name if resolved.
RECURSIVE ExpectedFrom(_)
ExpectedFrom(i) ==
    IF i > Len(CaptureSteps) THEN <<>>
    ELSE LET s == CaptureSteps[i]
             out == IF queried[s.fn].some THEN queried[s.fn].val.out ELSE <<>>
             own == [k \in 1..Len(out) |->
                        LET m == [out[k] EXCEPT !.tags = @ @@ ("collector" :> s.collector)]
                        IN  [event |-> "Metric",
                             metric |-> IF hostname.ok
                                        THEN [m EXCEPT !.tags = @ @@ ("host" :> hostname.val)]
                                        ELSE m]]
         IN  own \o ExpectedFrom(i + 1)

\* C9: a provider failure stays within its category: a collector call whose
\* provider gives nothing yields no metric, so a category all of whose
\* queries fail is empty in the batch; capture_metrics still returns, with
\* every metric of every other enabled collector call in the batch; and run
\* ends only on shutdown or on a closed sink, never on a provider failure.
C9_ProviderFailureIsolated ==
    /\ \A fn \in Fns : (queried[fn].some /\ QueryFailed(fn)) => queried[fn].val.out = <<>>
    /\ pc = "Sending" =>
          /\ \A c \in EnabledCategories :
                (\A i \in StepsOf(c) : QueryFailed(CaptureSteps[i].fn)) =>
                    EventsOf(TagOf(c)) = <<>>
          /\ batch = ExpectedFrom(1)
    /\ pc = "Stopped" => shutdown
    /\ pc = "Failed" => sink = "closed"

C9_Witness ==
    /\ pc = "Waiting" /\ ~shutdown /\ sink = "ready"
    /\ ~cfg.collectors.some
    /\ queried["disk_metrics"].some /\ QueryFailed("disk_metrics")
    /\ EventsOf("disk") = <<>>
    /\ Len(EventsOf("cpu")) = 8 /\ Len(EventsOf("network")) = 14
    /\ sent = Len(batch)

\* A provider result without its Err entries (and, for partitions, without
\* the entries whose usage query fails).
Cleaned(fn, res) ==
    LET good(items) == SelectSeq(items, LAMBDA r : r.ok) IN
    IF fn = "filesystem_metrics"
    THEN LET pairs == [i \in 1..Len(res.val.partitions) |->
                          [p |-> res.val.partitions[i], u |-> res.val.usage[i]]]
             kept == SelectSeq(pairs, LAMBDA e : e.p.ok /\ e.u.ok)
         IN  Ok([partitions |-> [k \in 1..Len(kept) |-> kept[k].p],
                 usage |-> [k \in 1..Len(kept) |-> kept[k].u]])
    ELSE Ok(good(res.val))

\* The samples of a streamed result that are Err, or whose usage query fails.
BadSamples(fn, res) ==
    CASE fn = "cpu_metrics" -> {CpuTimes[i].id : i \in {j \in 1..Len(res.val) : ~res.val[j].ok}}
      [] fn = "disk_metrics" ->
            {DiskCounters[i].id : i \in {j \in 1..Len(res.val) : ~res.val[j].ok}}
      [] fn = "network_metrics" ->
            {NetCounters[i].id : i \in {j \in 1..Len(res.val) : ~res.val[j].ok}}
      [] fn = "filesystem_metrics" ->
            {Partitions[i].id : i \in {j \in 1..Len(res.val.partitions) :
                ~res.val.partitions[j].ok \/ ~res.val.usage[j].ok}}

Streamed == {"cpu_metrics", "disk_metrics", "network_metrics", "filesystem_metrics"}

\* C10: a failure of one entry of a streamed provider result (a CPU time, a
\* disk or network counter, a partition, a partition's usage query) costs
\* exactly that entry: no metric is read from it, and the collector gives
\* what it gives for the same stream without the failed entries.
C10_SampleFailureIsolated ==
    \A fn \in Streamed :
        (queried[fn].some /\ queried[fn].val.res.ok) =>
            LET res == queried[fn].val.res
                out == queried[fn].val.out
            IN  /\ \A k \in 1..Len(out) : out[k].value.sample \notin BadSamples(fn, res)
                /\ out = Collect(fn, cfg, Cleaned(fn, res))

C10_Witness ==
    /\ queried["disk_metrics"].some
    /\ queried["disk_metrics"].val.res.ok
    /\ BadSamples("disk_metrics", queried["disk_metrics"].val.res) = {"sda"}
    /\ Len(queried["disk_metrics"].val.out) = 4
    /\ queried["disk_metrics"].val.out[1].value.sample = "dm-1"

----------------------------------------------------------------------------
(* Properties of the tags and of the namespace of the emitted metrics.     *)

\* The metric names each collector function can give, over every result of
\* its provider.
MetricNames ==
    [fn \in Fns |->
        UNION { {Collect(fn, DefaultConfig, res)[k].name :
                    k \in 1..Len(Collect(fn, DefaultConfig, res))} :
                res \in ProviderResults(fn) }]

\* The collector calls that can have produced a metric of this name.
ProducersOf(name) == {i \in 1..Len(CaptureSteps) : name \in MetricNames[CaptureSteps[i].fn]}

CollectorNames == {"cpu", "disk", "filesystem", "load", "host", "memory", "network"}

\* For every metric name, the collector names its producing calls pass to
\* add_collector.
TagsByName ==
    [name \in UNION {MetricNames[fn] : fn \in Fns} |->
        {CaptureSteps[i].collector : i \in ProducersOf(name)}]

\* C11: every metric of the batch (and of the vector capture_metrics is
\* filling) carries a collector tag, whose value is the name of the category
\* of the collector call that produced the metric: cpu, disk, filesystem,
\* load, host, memory or network, with memory for the swap metrics.
C11_CollectorTag ==
    LET Tagged(m) ==
            /\ "collector" \in DOMAIN m.tags
            /\ m.tags["collector"] \in CollectorNames
            /\ m.name \in DOMAIN TagsByName
            /\ TagsByName[m.name] = {m.tags["collector"]}
            /\ m.name \in MetricNames["swap_metrics"] => m.tags["collector"] = "memory"
    IN  /\ \A i \in 1..Len(batch) : Tagged(batch[i].metric)
        /\ \A i \in 1..Len(metrics) : Tagged(metrics[i])

C11_Witness ==
    /\ pc = "Sending" /\ Len(batch) = 56
    /\ \E i \in 1..Len(batch) :
          /\ batch[i].metric.name = "memory_swap_free_bytes"
          /\ batch[i].metric.tags["collector"] = "memory"
    /\ {batch[i].metric.tags["collector"] : i \in 1..Len(batch)} = CollectorNames

\* The tags of a metric other than host.
WithoutHost(m) == [m EXCEPT !.tags = [k \in (DOMAIN m.tags) \ {"host"} |-> m.tags[k]]]

\* The host tag of a metric, None when it has none.
HostOf(m) == IF "host" \in DOMAIN m.tags THEN Some(m.tags["host"]) ELSE None

\* C12: when get_hostname gave Ok(h), every metric of the cycle's batch
\* carries host = h; when it gave Err, no metric of the batch carries a host
\* tag; either way the batch is, host tag aside, the metrics the collectors
\* gave, so a batch never mixes tagged and untagged metrics or two host values.
C12_HostTag ==
    /\ Len(batch) = Len(metrics) \/ batch = <<>>
    /\ \A i \in 1..Len(batch) :
          LET m == batch[i].metric IN
          /\ hostname.ok => ("host" \in DOMAIN m.tags /\ m.tags["host"] = hostname.val)
          /\ ~hostname.ok => "host" \notin DOMAIN m.tags
          /\ WithoutHost(m) = metrics[i]
    /\ Cardinality({HostOf(batch[i].metric) : i \in 1..Len(batch)}) <= 1

C12_Witness ==
    /\ pc = "Sending" /\ Len(batch) = 5
    /\ hostname = Ok("h")
    /\ \A i \in 1..Len(batch) : batch[i].metric.tags["host"] = "h"

\* The namespace a configuration asks for: the configured string, none for
\* the empty string.
ConfiguredNamespace(config) ==
    IF config.namespace = Some("") THEN None ELSE config.namespace

\* C13: every metric of the batch carries the namespace of the configuration
\* run was built from: "host" by default, the configured string when it is
\* not empty, and no namespace when the configured string is empty.
C13_Namespace ==
    /\ DefaultConfig.namespace = Some("host")
    /\ \A raw \in RawConfigs :
          build(raw) = cfg =>
              LET namespaces == {batch[i].metric.namespace : i \in 1..Len(batch)} IN
                  /\ namespaces \subseteq {ConfiguredNamespace(raw)}
                  /\ raw.namespace = Some("") => namespaces \subseteq {None}
                  /\ raw.namespace = Some("other") => namespaces \subseteq {Some("other")}
                  /\ raw.namespace = DefaultConfig.namespace =>
                        namespaces \subseteq {Some("host")}

C13_Witness ==
    /\ pc = "Sending" /\ Len(batch) = 3
    /\ \E raw \in RawConfigs : raw.namespace = Some("") /\ build(raw) = cfg
    /\ \A i \in 1..Len(batch) : ~batch[i].metric.namespace.some

----------------------------------------------------------------------------
(* Properties of the filters inside the collectors.                        *)

\* The metrics a collector call gave that were read from one sample.
MetricsOf(fn, sample) ==
    SelectSeq(queried[fn].val.out, LAMBDA m : m.value.sample = sample)

\* C14: in a cycle a partition gives metrics only if its mount point passes
\* filesystem.mountpoints, its device (which may be absent) passes
\* filesystem.devices and its filesystem type passes filesystem.filesystems;
\* a partition that fails one of the three gives no metric, and nothing
\* stands in for it: the output holds the four gauges of each partition
\* that passes (and whose entry and usage query succeed) and nothing else.
C14_FilesystemThreeFilters ==
    LET fn == "filesystem_metrics" IN
    (queried[fn].some /\ queried[fn].val.res.ok) =>
        LET res == queried[fn].val.res.val
            out == queried[fn].val.out
            Passes(p) ==
                /\ contains_path(cfg.filesystem.mountpoints, Some(p.mount_point))
                /\ contains_path(cfg.filesystem.devices, p.device)
                /\ contains_str(cfg.filesystem.filesystems, Some(p.file_system))
            Loaded(j) == res.partitions[j].ok /\ res.usage[j].ok
        IN  /\ \A j \in 1..Len(Partitions) :
                  LET p == Partitions[j] IN
                  /\ MetricsOf(fn, p.id) # <<>> => Passes(p)
                  /\ ~Passes(p) => MetricsOf(fn, p.id) = <<>>
                  /\ (Passes(p) /\ Loaded(j)) => Len(MetricsOf(fn, p.id)) = 4
            /\ Len(out) = 4 * Cardinality({j \in 1..Len(Partitions) :
                                              Passes(Partitions[j]) /\ Loaded(j)})
            /\ \A k \in 1..Len(out) : out[k].value # Zero

C14_Witness ==
    LET fn == "filesystem_metrics" IN
    /\ queried[fn].some /\ queried[fn].val.res.ok
    /\ cfg.filesystem.devices.includes.some
    /\ ~cfg.filesystem.mountpoints.includes.some /\ ~cfg.filesystem.filesystems.includes.some
    /\ Len(MetricsOf(fn, "root")) = 4
    /\ MetricsOf(fn, "tmp") = <<>>
    /\ Len(queried[fn].val.out) = 4

----------------------------------------------------------------------------
(* One provider snapshot collected under three configurations that differ  *)
(* in one FilterList: the default one, includes = P and excludes = P, as   *)
(* tests::assert_filtered_metrics does.                                    *)

\* The FilterList fields of the configuration, the collector each one
\* filters and the tag that carries the filtered value.
FilterFields ==
    { [field |-> "disk.devices", fn |-> "disk_metrics", tag |-> "device"],
      [field |-> "network.devices", fn |-> "network_metrics", tag |-> "device"],
      [field |-> "filesystem.devices", fn |-> "filesystem_metrics", tag |-> "device"],
      [field |-> "filesystem.filesystems", fn |-> "filesystem_metrics", tag |-> "filesystem"],
      [field |-> "filesystem.mountpoints", fn |-> "filesystem_metrics", tag |-> "mountpoint"] }

\* HostMetricsConfig { <field>: f, ..Default::default() }
WithFilter(field, f) ==
    CASE field = "disk.devices" -> [DefaultConfig EXCEPT !.disk.devices = f]
      [] field = "network.devices" -> [DefaultConfig EXCEPT !.network.devices = f]
      [] field = "filesystem.devices" -> [DefaultConfig EXCEPT !.filesystem.devices = f]
      [] field = "filesystem.filesystems" -> [DefaultConfig EXCEPT !.filesystem.filesystems = f]
      [] field = "filesystem.mountpoints" -> [DefaultConfig EXCEPT !.filesystem.mountpoints = f]

ComparePatterns == Patterns \cup {Pat_lo, Pat_t_star, Pat_slash_star}

InitCompare ==
    /\ filters \in {FilterList(Some(P), None) : P \in SeqsUpTo(ComparePatterns, MaxListLen)}
    /\ value = None
    /\ result = None
    /\ cfg = build(DefaultConfig)
    /\ RunIdle

\* get_metrics(FilterList::default()), get_metrics(includes = P) and
\* get_metrics(excludes = P) on the same snapshot res.
Compare(f, res) ==
    /\ result' = Some([field |-> f.field, tag |-> f.tag, res |-> res,
                        all_metrics |-> Collect(f.fn, WithFilter(f.field, DefaultFilter), res),
                        filtered_metrics_with |->
                            Collect(f.fn, WithFilter(f.field, filters), res),
                        filtered_metrics_without |->
                            Collect(f.fn, WithFilter(f.field,
                                        FilterList(None, filters.includes)), res)])
    /\ UNCHANGED <<filters, value, runVars>>

NextCompare == \E f \in FilterFields : \E res \in ProviderResults(f.fn) : Compare(f, res)

SpecCompare == InitCompare /\ [][NextCompare]_vars

\* A metric without the instant it was stamped with.
Unstamped(m) == [name |-> m.name, value |-> m.value, tags |-> m.tags]

Unstamp(ms) == {Unstamped(ms[i]) : i \in 1..Len(ms)}

\* Whether a metric has the filtered tag with a value some pattern matches.
TagMatches(m, tag, patterns) ==
    /\ tag \in DOMAIN m.tags
    /\ \E i \in 1..Len(patterns) : matches_str(patterns[i], m.tags[tag])

----------------------------------------------------------------------------
(* Properties of the timestamps and of the fields a provider lacks.        *)
(* A timestamp Now(fn, call) names one reading of the clock.  Metrics      *)
(* stamped by the same reading carry the same instant in every execution;  *)
(* two readings may return different instants, so metrics stamped by       *)
(* different readings do not carry one and the same timestamp.             *)

\* The collectors that read one sample per invocation.
SingleSample == {"memory_metrics", "swap_metrics", "loadavg_metrics"}

\* The clock readings behind the metrics of one collector call.
StampsOf(fn) == {queried[fn].val.out[k].timestamp : k \in 1..Len(queried[fn].val.out)}

\* The entries of a collector call's output: the metrics built by one pass of
\* its map closure (the metrics of one CPU, device, partition or query).
EntryOf(fn, m) ==
    IF fn \in SingleSample THEN fn
    ELSE IF fn = "cpu_metrics" THEN m.tags["cpu"]
    ELSE IF fn = "host_metrics" THEN m.name
    ELSE m.value.sample

\* C16 as stated: all the metrics of one collector invocation carry one and
\* the same timestamp, whatever the number of entries.
C16_SharedTimestamp ==
    \A fn \in Fns : queried[fn].some => Cardinality(StampsOf(fn)) <= 1

\* C16, amended: the metrics built from one entry of a collector invocation
\* (one CPU, one device, one partition, one host query) carry one and the
\* same timestamp, read when that entry is processed; each entry has a
\* reading of its own, so an invocation carries as many timestamps as it has
\* entries, and one only when it reads a single sample (memory, swap, load).
C16_TimestampPerEntry ==
    \A fn \in Fns : queried[fn].some =>
        LET out == queried[fn].val.out IN
        /\ \A k \in 1..Len(out) : out[k].timestamp.fn = fn
        /\ LET stamped == {<<EntryOf(fn, out[k]), out[k].timestamp>> : k \in 1..Len(out)}
           IN  \A a, b \in stamped : (a[1] = b[1]) = (a[2] = b[2])
        /\ fn \in SingleSample => Cardinality(StampsOf(fn)) <= 1

C16_Witness ==
    LET out == queried["cpu_metrics"].val.out IN
    /\ queried["cpu_metrics"].some
    /\ Len(out) = 8
    /\ out[1].timestamp = out[4].timestamp
    /\ out[4].timestamp # out[5].timestamp
    /\ Cardinality(StampsOf("cpu_metrics")) = 2

\* The metrics of the swap collector call that carry a name.
SwapNamed(name) ==
    SelectSeq(queried["swap_metrics"].val.out, LAMBDA m : m.name = name)

SwapFigures ==
    { [name |-> "memory_swapped_in_bytes_total", field |-> "sin"],
      [name |-> "memory_swapped_out_bytes_total", field |-> "sout"] }

\* C17 as stated: when the swap provider reports no swapped-in or
\* swapped-out figure, the metric of that name is absent from the output,
\* and no metric carries a placeholder value.
C17_AbsentFieldOmitted ==
    (queried["swap_metrics"].some /\ queried["swap_metrics"].val.res.ok) =>
        /\ \A f \in SwapFigures :
              ~queried["swap_metrics"].val.res.val[f.field].some => SwapNamed(f.name) = <<>>
        /\ \A k \in 1..Len(queried["swap_metrics"].val.out) :
              queried["swap_metrics"].val.out[k].value # Zero

\* C17, amended: whenever the swap query succeeds the collector gives all
\* five swap metrics; a swapped-in or swapped-out figure the provider does
\* not report is emitted under its name with the value 0, and one it reports
\* is emitted with the reported value.
C17_AbsentFieldIsZero ==
    (queried["swap_metrics"].some /\ queried["swap_metrics"].val.res.ok) =>
        LET swap == queried["swap_metrics"].val.res.val
            out == queried["swap_metrics"].val.out
        IN  /\ Len(out) = 5
            /\ \A f \in SwapFigures :
                  /\ Len(SwapNamed(f.name)) = 1
                  /\ ~swap[f.field].some => SwapNamed(f.name)[1].value = Zero
                  /\ swap[f.field].some => SwapNamed(f.name)[1].value = swap[f.field].val
            /\ \A k \in 1..Len(out) :
                  out[k].value = Zero =>
                      \E f \in SwapFigures : out[k].name = f.name /\ ~swap[f.field].some

C17_Witness ==
    /\ queried["swap_metrics"].some /\ queried["swap_metrics"].val.res.ok
    /\ ~queried["swap_metrics"].val.res.val.sin.some
    /\ queried["swap_metrics"].val.res.val.sout.some
    /\ Len(SwapNamed("memory_swapped_in_bytes_total")) = 1
    /\ SwapNamed("memory_swapped_in_bytes_total")[1].value = Zero

----------------------------------------------------------------------------
(* capture_metrics as a function of the configuration, of what every       *)
(* provider query returns and of the host name; two captures taken against *)
(* the same provider state, as tests::filters_on_collectors compares them. *)

\* The collector calls of capture_metrics, in the order they are made.
CollectFrom(self, state) ==
    Flatten([i \in 1..Len(CaptureSteps) |->
                LET s == CaptureSteps[i] IN
                    IF has_collector(self, s.category)
                    THEN add_collector(s.collector, Collect(s.fn, self, state[s.fn]))
                    ELSE <<>>])

capture_metrics(self, state, host) ==
    LET collected == CollectFrom(self, state)
        tagged == IF host.ok
                  THEN [i \in 1..Len(collected) |-> insert_tag(collected[i], "host", host.val)]
                  ELSE collected
    IN  [i \in 1..Len(tagged) |-> into_event(tagged[i])]

\* The provider states compared: each query works or fails as a whole.
ProviderStates ==
    { [fn \in Fns |-> IF fn \in up THEN Healthy(fn) ELSE Down(fn)] : up \in SUBSET Fns }

InitCapture ==
    /\ \E state \in ProviderStates :
          queried = [fn \in Fns |->
                        Some([res |-> state[fn], out |-> Collect(fn, DefaultConfig, state[fn])])]
    /\ hostname \in HostnameResults
    /\ filters = DefaultFilter
    /\ value = None
    /\ result = None
    /\ cfg = DefaultConfig
    /\ pc = "Idle" /\ step = 0 /\ metrics = <<>> /\ batch = <<>> /\ sent = 0
    /\ shutdown = FALSE /\ shutdownAt = [pc |-> "never", partial |-> FALSE]
    /\ tickDue = FALSE /\ sink = "ready" /\ faults = 0

\* The provider state of the behaviour.
ProviderState == [fn \in Fns |-> queried[fn].val.res]

\* tests::filters_on_collectors for one collector: the count of a capture
\* with the default configuration and of one restricted to the collector.
CaptureBoth(collector) ==
    /\ result' =
          Some([collector |-> collector,
                all_metrics_count |->
                    Len(capture_metrics(DefaultConfig, ProviderState, hostname)),
                some_metrics_count |->
                    Len(capture_metrics([DefaultConfig EXCEPT !.collectors = Some(<<collector>>)],
                                        ProviderState, hostname))])
    /\ UNCHANGED <<filters, value, runVars>>

NextCapture == \E collector \in AllCollectors : CaptureBoth(collector)

SpecCapture == InitCapture /\ [][NextCapture]_vars

\* How many metrics the collectors of the other categories give.
OtherCount(collector) ==
    Len(Flatten([i \in 1..Len(CaptureSteps) |->
                    IF CaptureSteps[i].category # collector
                    THEN queried[CaptureSteps[i].fn].val.out ELSE <<>>]))

\* C18 as stated: against one provider state, the unrestricted capture
\* yields strictly more metrics than the capture restricted to a category.
C18_StrictlyMore ==
    result.some => result.val.all_metrics_count > result.val.some_metrics_count

\* C18, amended: against one provider state the unrestricted capture yields
\* the metrics of the restricted capture plus those of the other
\* categories: never fewer, and strictly more exactly when some other
\* category yields a metric, as when every provider query succeeds.
C18_MoreUnlessOthersEmpty ==
    result.some =>
        LET r == result.val IN
        /\ r.all_metrics_count = r.some_metrics_count + OtherCount(r.collector)
        /\ r.all_metrics_count >= r.some_metrics_count
        /\ (r.all_metrics_count > r.some_metrics_count) = (OtherCount(r.collector) > 0)
        /\ (\A fn \in Fns : queried[fn].val.res = Healthy(fn)) =>
              r.all_metrics_count > r.some_metrics_count

C18_Witness ==
    /\ result.some
    /\ result.val.collector = "Memory"
    /\ \A fn \in Fns : queried[fn].val.res = Healthy(fn)
    /\ result.val.all_metrics_count = 56
    /\ result.val.some_metrics_count = 13

----------------------------------------------------------------------------
(* Properties of retries and of a failing sink.                            *)

\* C19: no query is repeated within a capture cycle: the result recorded for
\* a collector call changes only when that call is made, once, at its place
\* in the call sequence, which then moves on whether the query succeeded or
\* failed, or when the next tick starts a new cycle; during a capture the
\* calls already passed are exactly the queried ones.
C19_NoRetryWithinCycle ==
    /\ [][\A fn \in Fns :
            queried'[fn] # queried[fn] =>
                \/ pc = "Waiting" /\ pc' = "Capturing" /\ tickDue /\ queried' = NotQueried
                \/ /\ pc = "Capturing" /\ pc' = "Capturing"
                   /\ ~queried[fn].some
                   /\ step \in 1..Len(CaptureSteps) /\ CaptureSteps[step].fn = fn
                   /\ step' = step + 1]_vars
    /\ [](pc = "Capturing" =>
            \A i \in 1..Len(CaptureSteps) :
                queried[CaptureSteps[i].fn].some =
                    (i < step /\ has_collector(cfg, CaptureSteps[i].category)))

C19_Witness ==
    /\ pc = "Capturing" /\ step = 4
    /\ queried["cpu_metrics"].some /\ QueryFailed("cpu_metrics")
    /\ queried["disk_metrics"].some /\ queried["filesystem_metrics"].some
    /\ Len(metrics) = 16

\* C20: when send_all fails run ends at once with an error, shutdown
\* signalled or not: run fails only out of a send on a closed sink; with
\* events pending on a closed sink the only step run can take is to fail;
\* and once failed it awaits no tick, runs no capture and never stops.
C20_SinkFailureEndsRun ==
    [][ /\ (pc # "Failed" /\ pc' = "Failed") =>
              (pc = "Sending" /\ sink = "closed" /\ UNCHANGED <<batch, sent, shutdown>>)
        /\ (pc = "Sending" /\ sink = "closed" /\ sent < Len(batch)) =>
              (pc' \in {"Sending", "Failed"} /\ sent' = sent)
        /\ pc = "Failed" => (pc' = "Failed" /\ UNCHANGED <<captureVars, batch, sent>>)
      ]_vars

C20_Witness ==
    /\ pc = "Failed"
    /\ ~shutdown /\ tickDue
    /\ sink = "closed"
    /\ 0 < sent /\ sent < Len(batch)

----------------------------------------------------------------------------
(* Categories served by two provider queries.                              *)

\* The metric names of the events of a batch that carry collector = tag.
NamesOf(events, tag) ==
    {events[i].metric.name :
        i \in {j \in 1..Len(events) : events[j].metric.tags["collector"] = tag}}

\* C21: the two queries of a two-query category fail independently: in the
\* batch capture_metrics hands over, when exactly one of uptime / boot_time
\* failed the host collector's events are exactly the metric of the other,
\* and when exactly one of the memory / swap queries failed the memory
\* collector's events are exactly the metrics of the other; the category's
\* result is then not empty.
C21_TwoQueriesIndependent ==
    [][(pc = "Capturing" /\ pc' = "Sending") =>
          /\ queried["host_metrics"].some =>
                LET res == queried["host_metrics"].val.res
                    names == NamesOf(batch', "host")
                IN  /\ (res.uptime.ok /\ ~res.boot_time.ok) => names = {"uptime"}
                    /\ (~res.uptime.ok /\ res.boot_time.ok) => names = {"boot_time"}
          /\ (queried["memory_metrics"].some /\ queried["swap_metrics"].some) =>
                LET memory == queried["memory_metrics"].val.res
                    swap == queried["swap_metrics"].val.res
                    names == NamesOf(batch', "memory")
                IN  /\ (memory.ok /\ ~swap.ok) =>
                          (names = MetricNames["memory_metrics"] /\ names # {})
                    /\ (~memory.ok /\ swap.ok) =>
                          (names = MetricNames["swap_metrics"] /\ names # {})
          /\ queried["memory_metrics"].some = queried["swap_metrics"].some
      ]_vars

C21_Witness ==
    /\ pc = "Sending"
    /\ cfg.collectors = Some(<<"Host">>)
    /\ ~queried["host_metrics"].val.res.uptime.ok
    /\ queried["host_metrics"].val.res.boot_time.ok
    /\ Len(batch) = 1
    /\ batch[1].metric.name = "boot_time"
    /\ batch[1].metric.tags["collector"] = "host"

----------------------------------------------------------------------------
(* cpu_metrics on streams of CPU times of any length, each entry Ok or Err. *)

\* The longest stream of CPU times drawn.
MaxCpus == 6

\* The CpuTime of the n-th CPU of the host.
CpuTime(n) == [id |-> <<"cpu", n - 1>>]

\* What heim::cpu::times() can give on hosts of up to MaxCpus CPUs.
CpuResults ==
    {Err} \cup { Ok(items) : items \in UNION { StreamItems([i \in 1..n |-> CpuTime(i)]) :
                                                 n \in 0..MaxCpus } }

InitCpu ==
    /\ filters = DefaultFilter
    /\ value = None
    /\ result = None
    /\ cfg = build(DefaultConfig)
    /\ RunIdle

\* self.cpu_metrics().await against one answer of the provider.
CpuCollect(res) ==
    /\ result' = Some([res |-> res, out |-> cpu_metrics(cfg, res)])
    /\ UNCHANGED <<filters, value, runVars>>

NextCpu == \E res \in CpuResults : CpuCollect(res)

SpecCpu == InitCpu /\ [][NextCpu]_vars

\* C22: the cpu tag numbers only the well-formed samples: an invocation
\* with k well-formed CPU samples gives four metrics per sample, whose cpu
\* tags are exactly 0..k-1 in stream order; a well-formed sample is tagged
\* with the number of well-formed samples before it, so a malformed sample
\* consumes no index and a CPU behind one malformed sample is tagged one
\* lower than its position in the provider's stream.
C22_CpuIndexSkipsMalformed ==
    (result.some /\ result.val.res.ok) =>
        LET items == result.val.res.val
            out == result.val.out
            wellFormed == {i \in 1..Len(items) : items[i].ok}
            k == Cardinality(wellFormed)
            Before(i) == Cardinality({j \in wellFormed : j < i})
            Malformed(i) == Cardinality({j \in 1..(i - 1) : ~items[j].ok})
            TagsOf(i) == {out[n].tags["cpu"] :
                            n \in {l \in 1..Len(out) : out[l].value.sample = items[i].val.id}}
        IN  /\ Len(out) = 4 * k
            /\ {out[n].tags["cpu"] : n \in 1..Len(out)} = {to_string(i) : i \in 0..(k - 1)}
            /\ \A n \in 1..Len(out) : out[n].tags["cpu"] = to_string((n - 1) \div 4)
            /\ \A i \in wellFormed :
                  /\ TagsOf(i) = {to_string(Before(i))}
                  /\ Malformed(i) = 1 => TagsOf(i) = {to_string(i - 2)}
                  /\ Malformed(i) = 0 => TagsOf(i) = {to_string(i - 1)}

C22_Witness ==
    /\ result.some
    /\ result.val.res = Ok(<<Ok(CpuTime(1)), Err, Ok(CpuTime(3))>>)
    /\ Len(result.val.out) = 8
    /\ result.val.out[5].value.sample = CpuTime(3).id
    /\ result.val.out[5].tags["cpu"] = "1"

----------------------------------------------------------------------------
(* Empty, permuted and repeated pattern lists (under SpecFilter).          *)

\* C23: a FilterList whose includes list is present and empty contains no
\* value, present or absent, whereas with the includes list absent and
\* nothing excluded every value is contained; a FilterList whose excludes
\* list is present and empty gives, for every value, what the same
\* FilterList with the excludes list absent gives: the verdict of its
\* includes list alone.
C23_EmptyListVersusAbsent ==
    Evaluated =>
        /\ filters.includes = Some(<<>>) => (~result.val.str /\ ~result.val.path)
        /\ (~filters.includes.some /\ filters.excludes \in {None, Some(<<>>)}) =>
              (result.val.str /\ result.val.path)
        /\ filters.excludes = Some(<<>>) =>
              /\ result.val = contains_test([filters EXCEPT !.excludes = None], value)
              /\ result.val.str =
                    (~filters.includes.some \/ (value.some /\ IncludeMatches(value.val)))

C23_Witness ==
    /\ Evaluated
    /\ filters = FilterList(Some(<<>>), Some(<<>>))
    /\ value = Some(<<"s", "d", "a">>)
    /\ ~result.val.str /\ ~result.val.path
    /\ contains_str(FilterList(None, Some(<<>>)), value)

\* The patterns of an optional list, whatever their order and number.
PatternSet(l) == IF l.some THEN {l.val[i] : i \in 1..Len(l.val)} ELSE {}

\* For every optional list, the lists that hold the same patterns as it, in
\* any order and any number of times.
Rearranged ==
    [l \in PatternLists |->
        {m \in PatternLists : m.some = l.some /\ PatternSet(m) = PatternSet(l)}]

\* An optional list back to front, and one written twice over.
Reversed(l) ==
    IF l.some THEN Some([i \in 1..Len(l.val) |-> l.val[Len(l.val) + 1 - i]]) ELSE None

Doubled(l) == IF l.some THEN Some(l.val \o l.val) ELSE None

\* C24: contains depends neither on the order nor on the multiplicity of the
\* patterns: for the value evaluated, every FilterList that differs only in
\* that its includes list, or its excludes list, holds the same patterns
\* permuted or duplicated, and the FilterList with both lists reversed or
\* written twice, gives the result the evaluation gave; evaluating again
\* gives the same result, and an evaluation leaves the FilterList as it was.
C24_OrderAndMultiplicity ==
    /\ [](Evaluated =>
            /\ \A i \in Rearranged[filters.includes] :
                  contains_test(FilterList(i, filters.excludes), value) = result.val
            /\ \A e \in Rearranged[filters.excludes] :
                  contains_test(FilterList(filters.includes, e), value) = result.val
            /\ \A i \in {Reversed(filters.includes), Doubled(filters.includes)} :
                  \A e \in {Reversed(filters.excludes), Doubled(filters.excludes)} :
                      contains_test(FilterList(i, e), value) = result.val
            /\ contains_test(filters, value) = result.val)
    /\ [][filters' = filters]_vars

C24_Witness ==
    /\ Evaluated
    /\ filters = FilterList(Some(<<Pat_sda, Pat_dm_star>>), Some(<<Pat_dm_5, Pat_q_da>>))
    /\ value = Some(<<"d", "m", "-", "1">>)
    /\ result.val.str
    /\ contains_str(FilterList(Some(<<Pat_dm_star, Pat_sda>>), Some(<<Pat_q_da, Pat_dm_5>>)), value)
    /\ contains_str(FilterList(Some(<<Pat_sda, Pat_dm_star, Pat_sda>>),
                               Some(<<Pat_dm_5, Pat_dm_5, Pat_q_da>>)), value)

=============================================================================
